---- MODULE Spec2Model ----
(***************************************************************************)
(* A model of boring-sys/build.rs: the build script that builds BoringSSL  *)
(* with cmake, emits cargo link directives and generates the bindings.     *)
(*                                                                         *)
(* Text is modelled by what the code does with it: a version line is a     *)
(* sequence of characters and `contains` is substring search; names of     *)
(* tools, variables and directories are strings compared for equality.     *)
(***************************************************************************)
EXTENDS Naturals, Sequences, FiniteSets

VARIABLES
    probes,     \* verifier: what `<tool> --version` does, per compiler binary
    vres,       \* verifier: outcome of verify_fips_clang_version
    listing,    \* locator: what read_dir of the toolchains root gives
    lres,       \* locator: result of pick_best_android_ndk_toolchain
    env,        \* ambient inputs: cargo features, cfg!(target_env), variables
    buildPath,  \* result of get_boringssl_platform_output_path
    cfg,        \* the cmake::Config being composed
    looked,     \* lookups: what cmake_params_android and cmake_params_apple return
    pc,         \* main: the step the current run is at
    run,        \* main: which run of the build script this is
    tree,       \* the BoringSSL source tree (its CMakeLists.txt) exists
    fetches,    \* main: git submodule updates started by the current run
    stdout,     \* main: lines printed to stdout (cargo directives)
    stderr,     \* main: messages printed to stderr
    bsslDir,    \* main: bssl_dir
    builder,    \* main: the bindgen::Builder
    ext,        \* main: what the external commands of the current run did
    bindings,   \* the bindings.rs file: its state and the run that wrote it
    abortAt,    \* main: the step that panicked
    prev        \* what the previous run left: its link directives, its end

mainVars == <<pc, run, tree, fetches, stdout, stderr, bsslDir, builder, ext, bindings,
              abortAt, prev>>
vars == <<probes, vres, listing, lres, env, buildPath, cfg, looked, mainVars>>

\* An optional value (Option<T>, Result<T, _>): <<>> or <<v>>.
None == <<>>
Some(v) == <<v>>

\* Values of the variables a specification does not exercise.
IdleVerifier == probes = <<>> /\ vres = <<>>
IdleLocator == listing = <<>> /\ lres = <<>>
IdleEnv == env = <<>> /\ buildPath = <<>> /\ cfg = <<>>
IdleLookup == looked = <<>>
IdleMain ==
    /\ pc = "idle" /\ run = 0 /\ tree = FALSE /\ fetches = 0
    /\ stdout = <<>> /\ stderr = <<>> /\ bsslDir = "" /\ builder = <<>> /\ ext = <<>>
    /\ bindings = <<>> /\ abortAt = "" /\ prev = <<>>

(***************************************************************************)
(* verify_fips_clang_version (build.rs 309-350)                            *)
(***************************************************************************)

\* build.rs 324
REQUIRED_CLANG_VERSION == <<"7", ".", "0", ".", "1">>

\* build.rs 325-329: the candidate pairs, in the order they are tried
Candidates ==
    << <<"clang-7", "clang++-7">>, <<"clang", "clang++">>, <<"cc", "c++">> >>

Tools == {Candidates[i][j] : i \in 1..3, j \in 1..2}

\* str::contains with a non-empty pattern: substring search
Contains(s, pat) ==
    \E k \in 0..Len(s) :
        /\ k + Len(pat) <= Len(s)
        /\ \A j \in 1..Len(pat) : s[k + j] = pat[j]

\* First lines a compiler may print (as characters).
Line701 == <<"7", ".", "0", ".", "1">>
Line1701 == <<"1", "7", ".", "0", ".", "1">>
Line710 == <<"7", ".", "1", ".", "0">>
LineBlank == <<>>
VersionLines == {Line701, Line1701, Line710, LineBlank}

\* What Command::new(tool).arg("--version").output() can give: the spawn
\* fails, or the process ends with a status and some stdout.
MissingTool == [spawn |-> FALSE, success |-> FALSE, utf8 |-> FALSE, lines |-> <<>>]
FailedTool == [spawn |-> TRUE, success |-> FALSE, utf8 |-> TRUE, lines |-> <<>>]
GarbledTool == [spawn |-> TRUE, success |-> TRUE, utf8 |-> FALSE, lines |-> <<>>]
SilentTool == [spawn |-> TRUE, success |-> TRUE, utf8 |-> TRUE, lines |-> <<>>]
Reports(l) == [spawn |-> TRUE, success |-> TRUE, utf8 |-> TRUE, lines |-> <<l>>]
ProbeOutcomes ==
    {MissingTool, FailedTool, GarbledTool, SilentTool}
        \cup {Reports(l) : l \in VersionLines}
        \cup {[spawn |-> TRUE, success |-> TRUE, utf8 |-> TRUE,
               lines |-> <<Line710, Line701>>]}

versionMissingIsFatal(tool, path) ==
    LET o == path[tool] IN
    IF ~o.spawn \/ ~o.success
        THEN [abort |-> "status", line |-> <<>>, warn |-> <<>>]
    ELSE IF ~o.utf8
        THEN [abort |-> "utf8", line |-> <<>>, warn |-> <<>>]
    ELSE IF o.lines = <<>>
        THEN [abort |-> "empty output", line |-> <<>>, warn |-> <<>>]
    ELSE [abort |-> "none", line |-> o.lines[1], warn |-> <<>>]

\* fn version(tool): the first line of the tool's --version output, "" with
\* a warning when the tool cannot be spawned, a panic when it ran badly.
version(tool, path) ==
    LET o == path[tool] IN
    IF ~o.spawn
        THEN [abort |-> "none", line |-> <<>>, warn |-> << <<"missing", tool>> >>]
    ELSE IF ~o.success
        THEN [abort |-> "status", line |-> <<>>, warn |-> <<>>]
    ELSE IF ~o.utf8
        THEN [abort |-> "utf8", line |-> <<>>, warn |-> <<>>]
    ELSE IF o.lines = <<>>
        THEN [abort |-> "empty output", line |-> <<>>, warn |-> <<>>]
    ELSE [abort |-> "none", line |-> o.lines[1], warn |-> <<>>]

\* build.rs 331: cc_version.contains(REQUIRED_CLANG_VERSION)
CcMatches(line) == Contains(line, REQUIRED_CLANG_VERSION)

\* build.rs 332-335: assert!(version(cxx).contains(REQUIRED_CLANG_VERSION))
CxxMatchesAlways(line) == TRUE
CxxMatches(line) == Contains(line, REQUIRED_CLANG_VERSION)

\* build.rs 337: else if cc == "cc"
IsFallbackNever(cc) == FALSE
IsFallback(cc) == cc = "cc"

\* build.rs 342-347: the warning for a present, incompatible candidate
SkipWarning(line) ==
    IF line # <<>> THEN << <<"skipping incompatible version", line>> >> ELSE <<>>

Verdict(o, p, f, w, t) ==
    [outcome |-> o, pair |-> p, found |-> f, warnings |-> w, probed |-> t]

NotRun == Verdict("pending", <<>>, <<>>, <<>>, <<>>)

RECURSIVE VerifyFrom(_, _, _, _)
\* The loop of build.rs 325-348 from candidate i on, then line 349.
VerifyFrom(i, path, w, t) ==
    IF i > Len(Candidates) THEN Verdict("unreachable", <<>>, <<>>, w, t)
    ELSE
      LET cc == Candidates[i][1]
          cxx == Candidates[i][2]
          v == version(cc, path)
          w1 == w \o v.warn
          t1 == Append(t, cc)
      IN
      IF v.abort # "none" THEN Verdict(v.abort, <<>>, <<>>, w1, t1)
      ELSE IF CcMatches(v.line) THEN
        LET x == version(cxx, path)
            w2 == w1 \o x.warn
            t2 == Append(t1, cxx)
        IN
        IF x.abort # "none" THEN Verdict(x.abort, <<>>, <<>>, w2, t2)
        ELSE IF CxxMatches(x.line) THEN Verdict("returned", <<cc, cxx>>, v.line, w2, t2)
        ELSE Verdict("mismatch", <<>>, v.line, w2, t2)
      ELSE IF IsFallback(cc) THEN Verdict("unsupported", <<>>, v.line, w1, t1)
      ELSE VerifyFrom(i + 1, path, w1 \o SkipWarning(v.line), t1)

verify_fips_clang_version(path) == VerifyFrom(1, path, <<>>, <<>>)

ProbeEnvs == [Tools -> ProbeOutcomes]

InitVerifier ==
    /\ probes \in ProbeEnvs
    /\ vres = NotRun
    /\ IdleLocator /\ IdleEnv /\ IdleLookup /\ IdleMain

\* One call of verify_fips_clang_version in the environment `probes`.
Verify ==
    /\ vres.outcome = "pending"
    /\ vres' = verify_fips_clang_version(probes)
    /\ UNCHANGED <<looked, probes, listing, lres, env, buildPath, cfg, mainVars>>

NextVerifier == Verify

SpecVerifier == InitVerifier /\ [][NextVerifier]_vars

(***************************************************************************)
(* pick_best_android_ndk_toolchain (build.rs 352-377)                      *)
(***************************************************************************)

\* Most children a listed toolchains root has in the model.
MaxEntries == 3

\* build.rs 356: the documented host toolchains, in preference order
KnownToolchainsAlphabetical == <<"darwin-x86_64", "linux-x86_64", "windows-x86_64">>
KnownToolchains == <<"linux-x86_64", "darwin-x86_64", "windows-x86_64">>

EntryNames == {"linux-x86_64", "darwin-x86_64", "windows-x86_64", "linux-aarch64", "README"}
\* What a child is: a directory, something else (a file, a symlink), a child
\* whose file_type() fails, or a child the directory iterator fails on.
EntryKinds == {"dir", "file", "notype", "ioerr"}
Entries == [name : EntryNames, kind : EntryKinds]

DistinctNames(s) == \A i, j \in 1..Len(s) : i # j => s[i].name # s[j].name
\* read_dir fails (unreadable), or lists distinct children in some order.
Listings ==
    {[readable |-> FALSE, entries |-> <<>>]}
        \cup {[readable |-> TRUE, entries |-> s] :
                s \in {t \in UNION {[1..n -> Entries] : n \in 0..MaxEntries} :
                          DistinctNames(t)}}

\* build.rs 368: entry.file_type().map(|ty| ty.is_dir()).unwrap_or(false)
IsDir(e) == e.kind = "dir"

\* build.rs 357-359: Iterator::find by file name; the index of the first
\* entry with that name, 0 if there is none
FindNamed(entries, name) ==
    IF \E i \in 1..Len(entries) : entries[i].name = name
        THEN CHOOSE i \in 1..Len(entries) :
                /\ entries[i].name = name
                /\ \A j \in 1..(i - 1) : entries[j].name # name
        ELSE 0

\* build.rs 366-371: the fallback to any subdirectory; the index of the
\* first entry that is a directory, 0 if there is none
FallbackIndex(entries) ==
    IF \E i \in 1..Len(entries) : IsDir(entries[i])
        THEN CHOOSE i \in 1..Len(entries) :
                IsDir(entries[i]) /\ \A j \in 1..(i - 1) : ~IsDir(entries[j])
        ELSE 0

Picked(name) == [ok |-> TRUE, name |-> name, err |-> "none"]
PickFailed(e) == [ok |-> FALSE, name |-> "", err |-> e]

RECURSIVE PickKnownFrom(_, _)
\* build.rs 356-363 from the k-th known name on: the name found, "" if none.
PickKnownFrom(k, entries) ==
    IF k > Len(KnownToolchains) THEN ""
    ELSE LET i == FindNamed(entries, KnownToolchains[k])
         IN IF i # 0 THEN entries[i].name ELSE PickKnownFrom(k + 1, entries)

pick_best_android_ndk_toolchain(dir) ==
    IF ~dir.readable THEN PickFailed("io")
    ELSE IF \E i \in 1..Len(dir.entries) : dir.entries[i].kind = "ioerr"
        THEN PickFailed("io")
    ELSE
      LET known == PickKnownFrom(1, dir.entries)
          i == FallbackIndex(dir.entries)
      IN IF known # "" THEN Picked(known)
         ELSE IF i # 0 THEN Picked(dir.entries[i].name)
         ELSE PickFailed("NotFound")

NotPicked == [ok |-> FALSE, name |-> "", err |-> "pending"]

InitLocator ==
    /\ listing \in Listings
    /\ lres = NotPicked
    /\ IdleVerifier /\ IdleEnv /\ IdleLookup /\ IdleMain

\* One call of pick_best_android_ndk_toolchain on the directory `listing`.
Locate ==
    /\ lres.err = "pending"
    /\ lres' = pick_best_android_ndk_toolchain(listing)
    /\ UNCHANGED <<looked, probes, vres, listing, env, buildPath, cfg, mainVars>>

NextLocator == Locate

SpecLocator == InitLocator /\ [][NextLocator]_vars

(***************************************************************************)
(* The ambient inputs.  env.feat: the cargo features the script is built   *)
(* with (cfg!(feature = ..)); env.msvc: cfg!(target_env = "msvc");         *)
(* env.var: the process environment, None for a variable that is not set.  *)
(* A target triple is the sequence of its dash-separated components.       *)
(***************************************************************************)

Features == {"ssl", "fips", "fuzzing", "ndk-old-gcc", "android-api-19"}
VarNames ==
    {"CARGO_CFG_TARGET_ARCH", "CARGO_CFG_TARGET_OS", "HOST", "TARGET",
     "ANDROID_NDK_HOME", "DEBUG", "OPT_LEVEL", "BORING_BSSL_PATH",
     "BORING_BSSL_INCLUDE_PATH", "OUT_DIR"}

\* std::env::var(name)
Var(e, name) == e.var[name]
IsSet(e, name) == e.var[name] # None
Val(e, name) == e.var[name][1]
Has(e, f) == f \in e.feat

\* An environment where nothing optional is set and cargo describes a
\* native x86_64 linux build.
LinuxGnu == <<"x86_64", "unknown", "linux", "gnu">>
BaseVars ==
    [n \in VarNames |->
        CASE n = "CARGO_CFG_TARGET_ARCH" -> Some("x86_64")
          [] n = "CARGO_CFG_TARGET_OS" -> Some("linux")
          [] n = "HOST" -> Some(LinuxGnu)
          [] n = "TARGET" -> Some(LinuxGnu)
          [] n = "DEBUG" -> Some("false")
          [] n = "OPT_LEVEL" -> Some("3")
          [] n = "OUT_DIR" -> Some("$OUT_DIR")
          [] OTHER -> None]
BaseEnv == [feat |-> {}, msvc |-> FALSE, var |-> BaseVars]

\* e with the variables of the function `over` set as it says.
WithVars(e, over) ==
    [e EXCEPT !.var = [n \in VarNames |-> IF n \in DOMAIN over THEN over[n] ELSE e.var[n]]]

(***************************************************************************)
(* get_boringssl_platform_output_path (build.rs 132-163)                   *)
(***************************************************************************)

PathOk(subdir) == [abort |-> "none", subdir |-> subdir]
PathPanic(why) == [abort |-> why, subdir |-> ""]

\* build.rs 137-141
DebInfo(e) ==
    IF ~IsSet(e, "DEBUG") THEN None
    ELSE IF Val(e, "DEBUG") = "false" THEN Some(FALSE)
    ELSE IF Val(e, "DEBUG") = "true" THEN Some(TRUE)
    ELSE None

\* build.rs 146-157, for a known deb_info and OPT_LEVEL: "" is the panic arm
SubdirIgnoringDebug(deb_info, opt) ==
    IF opt = "0" THEN "Debug"
    ELSE IF opt \in {"1", "2", "3"} THEN "Release"
    ELSE IF opt \in {"s", "z"} THEN "MinSizeRel"
    ELSE ""
Subdir(deb_info, opt) ==
    IF opt = "0" THEN "Debug"
    ELSE IF opt \in {"1", "2", "3"}
        THEN (IF deb_info THEN "RelWithDebInfo" ELSE "Release")
    ELSE IF opt \in {"s", "z"} THEN "MinSizeRel"
    ELSE ""

get_boringssl_platform_output_path(e) ==
    IF e.msvc THEN
        IF ~IsSet(e, "DEBUG") THEN PathPanic("DEBUG variable not defined in env")
        ELSE IF DebInfo(e) = None THEN PathPanic("Unknown DEBUG")
        ELSE IF ~IsSet(e, "OPT_LEVEL")
            THEN PathPanic("OPT_LEVEL variable not defined in env")
        ELSE IF Subdir(DebInfo(e)[1], Val(e, "OPT_LEVEL")) = ""
            THEN PathPanic("Unknown OPT_LEVEL")
        ELSE PathOk(Subdir(DebInfo(e)[1], Val(e, "OPT_LEVEL")))
    ELSE PathOk("")

DebugValues == {"true", "false", "1"}
OptLevels == {"0", "1", "2", "3", "s", "z", "fast"}
PathEnvs ==
    {[WithVars(BaseEnv, [DEBUG |-> d, OPT_LEVEL |-> o]) EXCEPT !.msvc = m] :
        m \in BOOLEAN,
        d \in {None} \cup {Some(x) : x \in DebugValues},
        o \in {None} \cup {Some(x) : x \in OptLevels}}

NoPath == [abort |-> "pending", subdir |-> ""]

InitOutputPath ==
    /\ env \in PathEnvs
    /\ buildPath = NoPath
    /\ cfg = <<>>
    /\ IdleVerifier /\ IdleLocator /\ IdleLookup /\ IdleMain

\* One call of get_boringssl_platform_output_path in the environment `env`.
OutputPath ==
    /\ buildPath.abort = "pending"
    /\ buildPath' = get_boringssl_platform_output_path(env)
    /\ UNCHANGED <<looked, probes, vres, listing, lres, env, cfg, mainVars>>

NextOutputPath == OutputPath

SpecOutputPath == InitOutputPath /\ [][NextOutputPath]_vars

(***************************************************************************)
(* The platform parameter tables (build.rs 7-115)                          *)
(***************************************************************************)

\* A cmake definition value is a sequence of text pieces.
Param(name, value) == <<name, <<value>>>>

\* build.rs 10-27
CMAKE_PARAMS_ANDROID_NDK_OLD_GCC ==
    << <<"aarch64", <<Param("ANDROID_TOOLCHAIN_NAME", "aarch64-linux-android-4.9")>> >>,
       <<"arm", <<Param("ANDROID_TOOLCHAIN_NAME", "arm-linux-androideabi-4.9")>> >>,
       <<"x86", <<Param("ANDROID_TOOLCHAIN_NAME", "x86-linux-android-4.9")>> >>,
       <<"x86_64", <<Param("ANDROID_TOOLCHAIN_NAME", "x86_64-linux-android-4.9")>> >> >>

\* build.rs 30-35
CMAKE_PARAMS_ANDROID_NDK ==
    << <<"aarch64", <<Param("ANDROID_ABI", "arm64-v8a")>> >>,
       <<"arm", <<Param("ANDROID_ABI", "armeabi-v7a")>> >>,
       <<"x86", <<Param("ANDROID_ABI", "x86")>> >>,
       <<"x86_64", <<Param("ANDROID_ABI", "x86_64")>> >> >>

ApplePair(arch, sysroot) ==
    <<Param("CMAKE_OSX_ARCHITECTURES", arch), Param("CMAKE_OSX_SYSROOT", sysroot)>>

\* build.rs 52-105
CMAKE_PARAMS_APPLE ==
    << << <<"aarch64", "apple", "ios">>, ApplePair("arm64", "iphoneos") >>,
       << <<"aarch64", "apple", "ios", "sim">>, ApplePair("arm64", "iphonesimulator") >>,
       << <<"x86_64", "apple", "ios">>, ApplePair("x86_64", "iphonesimulator") >>,
       << <<"aarch64", "apple", "ios", "macabi">>, ApplePair("arm64", "macosx") >>,
       << <<"x86_64", "apple", "ios", "macabi">>, ApplePair("x86_64", "macosx") >>,
       << <<"aarch64", "apple", "darwin">>, ApplePair("arm64", "macosx") >>,
       << <<"x86_64", "apple", "darwin">>, ApplePair("x86_64", "macosx") >> >>

RECURSIVE ScanFrom(_, _, _)
\* The loops of build.rs 44-49 and 109-114: the parameters of the first
\* table row whose key equals `key`, the empty slice if none does.
ScanFrom(i, table, key) ==
    IF i > Len(table) THEN <<>>
    ELSE IF table[i][1] = key THEN table[i][2]
    ELSE ScanFrom(i + 1, table, key)

\* build.rs 37-50, without the test of the ndk-old-gcc feature
cmake_params_android_new_ndk(e) ==
    ScanFrom(1, CMAKE_PARAMS_ANDROID_NDK, Val(e, "CARGO_CFG_TARGET_ARCH"))
\* build.rs 37-50
cmake_params_android(e) ==
    ScanFrom(1,
             IF Has(e, "ndk-old-gcc") THEN CMAKE_PARAMS_ANDROID_NDK_OLD_GCC
                                      ELSE CMAKE_PARAMS_ANDROID_NDK,
             Val(e, "CARGO_CFG_TARGET_ARCH"))

\* build.rs 107-115
cmake_params_apple(e) == ScanFrom(1, CMAKE_PARAMS_APPLE, Val(e, "TARGET"))

\* build.rs 117-125: the CMAKE_OSX_SYSROOT of the target, None for the panic
get_apple_sdk_name(e) ==
    LET ps == cmake_params_apple(e)
        IsSysroot(p) == p[1] = "CMAKE_OSX_SYSROOT"
    IN IF \E i \in 1..Len(ps) : IsSysroot(ps[i])
          THEN Some(ps[CHOOSE i \in 1..Len(ps) :
                          IsSysroot(ps[i]) /\ \A j \in 1..(i - 1) : ~IsSysroot(ps[j])][2][1])
          ELSE None

(***************************************************************************)
(* get_boringssl_cmake_config (build.rs 165-304)                           *)
(***************************************************************************)

\* build.rs 165-168
BORING_SSL_PATH(e) == IF Has(e, "fips") THEN "deps/boringssl-fips" ELSE "deps/boringssl"

\* A triple as text pieces: its components joined by dashes.
RECURSIVE Dashed(_)
Dashed(t) ==
    IF Len(t) = 0 THEN <<>>
    ELSE IF Len(t) = 1 THEN t
    ELSE <<t[1], "-">> \o Dashed(Tail(t))

\* build.rs 222: target.ends_with("-macabi")
EndsWithMacabi(t) == Len(t) >= 2 /\ t[Len(t)] = "macabi"
\* build.rs 248: host.contains("windows"); no component of the triples
\* used here has windows as a proper part.
ContainsWindows(t) == \E i \in 1..Len(t) : t[i] = "windows"

\* build.rs 181: host != target
IsCrossAlways(host, target) == TRUE
IsCross(host, target) == host # target

\* cmake::Config::define / cflag, tagged with the match arm that made it.
Def(by, name, value) == [name |-> name, value |-> value, by |-> by]
RECURSIVE DefsOf(_, _)
DefsOf(by, ps) ==
    IF ps = <<>> THEN <<>>
    ELSE <<Def(by, ps[1][1], ps[1][2])>> \o DefsOf(by, Tail(ps))
\* println!("cargo:rerun-if-env-changed=..")
RerunIfEnvChanged(name) == <<"cargo:rerun-if-env-changed", name>>

RECURSIVE AddLog(_, _, _)
\* eprintln!("<os> arch={} add {}={}", arch, name, value) per parameter
AddLog(os, arch, ps) ==
    IF ps = <<>> THEN <<>>
    ELSE << <<os, "arch", arch, "add", ps[1][1]>> >> \o AddLog(os, arch, Tail(ps))

Config(e, branch, defines, cflags, out, err) ==
    [abort |-> "none", src |-> BORING_SSL_PATH(e), branch |-> branch,
     defines |-> defines, cflags |-> cflags, cxxflags |-> <<>>,
     built |-> <<>>, out |-> out, err |-> err]
ConfigPanic(e, why, branch, out) ==
    [abort |-> why, src |-> BORING_SSL_PATH(e), branch |-> branch,
     defines |-> <<>>, cflags |-> <<>>, cxxflags |-> <<>>,
     built |-> <<>>, out |-> out, err |-> <<>>]

\* build.rs 184-204
AndroidArm(e) ==
    LET out == <<RerunIfEnvChanged("ANDROID_NDK_HOME")>>
        arch == Val(e, "CARGO_CFG_TARGET_ARCH")
        ps == cmake_params_android(e)
    IN IF ~IsSet(e, "ANDROID_NDK_HOME")
          THEN ConfigPanic(e, "Please set ANDROID_NDK_HOME for Android build",
                           "android", out)
          ELSE Config(e, "android",
                 DefsOf("android", ps) \o
                 <<Def("android", "CMAKE_TOOLCHAIN_FILE",
                       <<Val(e, "ANDROID_NDK_HOME"), "/",
                         "build/cmake/android.toolchain.cmake">>),
                   Def("android", "ANDROID_NATIVE_API_LEVEL",
                       <<IF Has(e, "android-api-19") THEN "19" ELSE "21">>),
                   Def("android", "ANDROID_STL", <<"c++_shared">>)>>,
                 <<>>, out,
                 AddLog("android", arch, ps) \o << <<"android toolchain">> >>)

\* build.rs 206-211
MacosArm(e) ==
    LET ps == cmake_params_apple(e) IN
    Config(e, "macos", DefsOf("macos", ps), <<>>, <<>>,
           AddLog("macos", Val(e, "CARGO_CFG_TARGET_ARCH"), ps))

\* build.rs 213-245
IosArm(e) ==
    LET ps == cmake_params_apple(e)
        arch == Val(e, "CARGO_CFG_TARGET_ARCH")
        target == Val(e, "TARGET")
        compiler_flags == <<"-fembed-bitcode", " ", "-target", " ">> \o Dashed(target)
        target_cflag == IF arch = "x86_64" THEN "-target x86_64-apple-ios-simulator" ELSE ""
        cflag == <<"-fembed-bitcode", " ", target_cflag>>
    IN IF EndsWithMacabi(target)
          THEN Config(e, "ios",
                 DefsOf("ios", ps) \o
                 <<Def("ios", "CMAKE_ASM_FLAGS", compiler_flags),
                   Def("ios", "CMAKE_C_FLAGS", compiler_flags),
                   Def("ios", "CMAKE_CXX_FLAGS", compiler_flags)>>,
                 <<>>, <<>>, AddLog("ios", arch, ps))
          ELSE Config(e, "ios",
                 DefsOf("ios", ps) \o <<Def("ios", "CMAKE_ASM_FLAGS", cflag)>>,
                 <<[value |-> cflag, by |-> "ios"]>>, <<>>, AddLog("ios", arch, ps))

\* build.rs 247-253
WindowsArm(e) ==
    Config(e, "windows",
           IF ContainsWindows(Val(e, "HOST"))
              THEN <<Def("windows", "OPENSSL_NO_ASM", <<"YES">>)>> ELSE <<>>,
           <<>>, <<>>, <<>>)

\* build.rs 255-282
LinuxArm(e) ==
    LET arch == Val(e, "CARGO_CFG_TARGET_ARCH")
        File(path) == <<Def("linux", "CMAKE_TOOLCHAIN_FILE", <<"$PWD", "/">> \o path)>>
    IN IF arch = "x86"
          THEN Config(e, "linux",
                      File(<<BORING_SSL_PATH(e), "/", "src/util/32-bit-toolchain.cmake">>),
                      <<>>, <<>>, <<>>)
       ELSE IF arch = "aarch64"
          THEN Config(e, "linux", File(<<"cmake/aarch64-linux.cmake">>), <<>>, <<>>, <<>>)
       ELSE IF arch = "arm"
          THEN Config(e, "linux", File(<<"cmake/armv7-linux.cmake">>), <<>>, <<>>, <<>>)
       ELSE Config(e, "linux", <<>>, <<>>, <<>>,
                   << <<"warning: no toolchain file configured by boring-sys">> >>)

\* build.rs 284-297
WasiArm(e) ==
    Config(e, "wasi",
           <<Def("wasi", "CMAKE_TOOLCHAIN_FILE",
                 <<"/opt/wasi-sdk/share/cmake/wasi-sdk-pthread.cmake">>),
             Def("wasi", "WASI_SDK_PREFIX", <<"/opt/wasi-sdk/">>),
             Def("wasi", "CMAKE_C_COMPILER_FORCED", <<"true">>)>>,
           <<>>, <<>>, <<>>)

get_boringssl_cmake_config(e) ==
    IF \E n \in {"CARGO_CFG_TARGET_ARCH", "CARGO_CFG_TARGET_OS", "HOST", "TARGET"} :
          ~IsSet(e, n)
        THEN ConfigPanic(e, "unwrap of a variable that is not set", "none", <<>>)
    ELSE IF ~IsCross(Val(e, "HOST"), Val(e, "TARGET"))
        THEN Config(e, "none", <<>>, <<>>, <<>>, <<>>)
    ELSE
      LET os == Val(e, "CARGO_CFG_TARGET_OS") IN
      IF os = "android" THEN AndroidArm(e)
      ELSE IF os = "macos" THEN MacosArm(e)
      ELSE IF os = "ios" THEN IosArm(e)
      ELSE IF os = "windows" THEN WindowsArm(e)
      ELSE IF os = "linux" THEN LinuxArm(e)
      ELSE IF os = "wasi" THEN WasiArm(e)
      ELSE Config(e, "none", <<>>, <<>>, <<>>, <<>>)

OsNames == {"android", "macos", "ios", "windows", "linux", "wasi", "freebsd"}
ArchNames == {"x86", "x86_64", "aarch64", "arm", "wasm32"}
WindowsMsvc == <<"x86_64", "pc", "windows", "msvc">>
HostTriples == {LinuxGnu, WindowsMsvc, <<"aarch64", "apple", "darwin">>}
TargetTriples ==
    HostTriples \cup
    {<<"aarch64", "apple", "ios">>, <<"aarch64", "apple", "ios", "macabi">>,
     <<"x86_64", "apple", "ios">>, <<"armv7", "apple", "ios">>,
     <<"aarch64", "linux", "android">>, <<"wasm32", "wasi">>}
OptionOf(S) == {None} \cup {Some(x) : x \in S}
CMakeEnvs ==
    {[WithVars(BaseEnv,
               [CARGO_CFG_TARGET_OS |-> os, CARGO_CFG_TARGET_ARCH |-> arch,
                HOST |-> host, TARGET |-> target, ANDROID_NDK_HOME |-> ndk])
        EXCEPT !.feat = f] :
        os \in OptionOf(OsNames), arch \in OptionOf(ArchNames),
        host \in OptionOf(HostTriples), target \in OptionOf(TargetTriples),
        ndk \in OptionOf({"$NDK"}), f \in SUBSET {"ndk-old-gcc", "android-api-19"}}

NoConfig == [abort |-> "pending"]

InitCMake ==
    /\ env \in CMakeEnvs
    /\ cfg = NoConfig
    /\ buildPath = <<>>
    /\ IdleVerifier /\ IdleLocator /\ IdleLookup /\ IdleMain

\* One call of get_boringssl_cmake_config in the environment `env`.
ComposeConfig ==
    /\ cfg.abort = "pending"
    /\ cfg' = get_boringssl_cmake_config(env)
    /\ UNCHANGED <<looked, probes, vres, listing, lres, env, buildPath, mainVars>>

NextCMake == ComposeConfig

SpecCMake == InitCMake /\ [][NextCMake]_vars

(***************************************************************************)
(* The lookups on their own (build.rs 37-50, 107-115)                      *)
(***************************************************************************)

\* What a lookup gives: the parameters it returns, or the panic of the
\* unwrap of its variable (build.rs 38, 108).
Returned(ps) == [abort |-> "none", params |-> ps]
LookupPanic == [abort |-> "unwrap of a variable that is not set", params |-> <<>>]
NotLooked == [abort |-> "pending", params |-> <<>>]
NoLookup == [android |-> NotLooked, apple |-> NotLooked]

\* The keys of a table, and the inputs of the lookups: every key of the
\* tables and some architectures and triples the tables do not have.
Keys(table) == {table[i][1] : i \in 1..Len(table)}
LookupArchs == Keys(CMAKE_PARAMS_ANDROID_NDK) \cup {"wasm32", "riscv64"}
LookupTriples == Keys(CMAKE_PARAMS_APPLE) \cup TargetTriples
LookupEnvs ==
    {[WithVars(BaseEnv,
               [CARGO_CFG_TARGET_OS |-> Some(os), CARGO_CFG_TARGET_ARCH |-> arch,
                HOST |-> Some(LinuxGnu), TARGET |-> target,
                ANDROID_NDK_HOME |-> Some("$NDK")])
        EXCEPT !.feat = f] :
        os \in {"android", "ios", "macos"}, arch \in OptionOf(LookupArchs),
        target \in OptionOf(LookupTriples), f \in SUBSET {"ndk-old-gcc"}}

InitLookup ==
    /\ env \in LookupEnvs
    /\ looked = NoLookup
    /\ cfg = NoConfig
    /\ buildPath = <<>>
    /\ IdleVerifier /\ IdleLocator /\ IdleMain

\* One call of cmake_params_android and one of cmake_params_apple in the
\* environment `env`.
Lookup ==
    /\ looked = NoLookup
    /\ looked' =
          [android |-> IF IsSet(env, "CARGO_CFG_TARGET_ARCH")
                          THEN Returned(cmake_params_android(env)) ELSE LookupPanic,
           apple |-> IF IsSet(env, "TARGET")
                          THEN Returned(cmake_params_apple(env)) ELSE LookupPanic]
    /\ UNCHANGED <<probes, vres, listing, lres, env, buildPath, cfg, mainVars>>

\* The lookups, and get_boringssl_cmake_config which uses them.
NextLookup ==
    \/ Lookup
    \/ ComposeConfig

SpecLookup == InitLookup /\ [][NextLookup]_vars

(***************************************************************************)
(* get_extra_clang_args_for_bindgen (build.rs 379-450)                     *)
(***************************************************************************)

\* What running xcrun --show-sdk-path can give: the spawn fails, the process
\* exits with a failure code or is killed, or it succeeds with a path that
\* is or is not UTF-8.
XcrunOutcomes == {"spawn failed", "exit code", "killed", "ok", "ok not utf8"}

ClangArgs(params, log) == [abort |-> "none", params |-> params, err |-> log]
ClangArgsPanic(why) == [abort |-> why, params |-> <<>>, err |-> <<>>]

\* build.rs 387-411; xcrun is run when the SDK name is found
XcrunInvoked(e) ==
    /\ IsSet(e, "CARGO_CFG_TARGET_OS")
    /\ Val(e, "CARGO_CFG_TARGET_OS") \in {"ios", "macos"}
    /\ IsSet(e, "TARGET")
    /\ get_apple_sdk_name(e) # None

AppleClangArgs(e, xc) ==
    IF ~IsSet(e, "TARGET") THEN ClangArgsPanic("unwrap of a variable that is not set")
    ELSE IF get_apple_sdk_name(e) = None
        THEN ClangArgsPanic("cannot find SDK in CMAKE_PARAMS_APPLE")
    ELSE IF xc = "spawn failed" THEN ClangArgsPanic("xcrun: unwrap of a spawn error")
    ELSE IF xc \in {"exit code", "killed"}
        THEN ClangArgs(<<>>, << <<"xcrun failed", xc>>, <<"xcrun stderr">> >>)
    ELSE IF xc = "ok not utf8" THEN ClangArgsPanic("xcrun: sysroot is not UTF-8")
    ELSE ClangArgs(<< <<"-isysroot">>, <<"$(xcrun --show-sdk-path --sdk ",
                                         get_apple_sdk_name(e)[1], ")">> >>, <<>>)

\* build.rs 412-437, taking the failure of the discovery as fatal
AndroidClangArgsFatal(e, pick, utf8) ==
    IF ~IsSet(e, "ANDROID_NDK_HOME")
        THEN ClangArgsPanic("Please set ANDROID_NDK_HOME for Android build")
    ELSE IF ~pick.ok
        THEN ClangArgsPanic("failed to find prebuilt Android NDK toolchain")
    ELSE IF ~utf8 THEN ClangArgsPanic("Android NDK toolchain path isn't valid UTF-8")
    ELSE ClangArgs(<< <<"--sysroot">>,
                     <<Val(e, "ANDROID_NDK_HOME"), "/toolchains/llvm/prebuilt/",
                       pick.name, "/sysroot">> >>, <<>>)

\* build.rs 412-437
AndroidClangArgs(e, pick, utf8) ==
    IF ~IsSet(e, "ANDROID_NDK_HOME")
        THEN ClangArgsPanic("Please set ANDROID_NDK_HOME for Android build")
    ELSE IF ~pick.ok
        THEN ClangArgs(<<>>,
               << <<"warning: failed to find prebuilt Android NDK toolchain for bindgen",
                    pick.err>> >>)
    ELSE IF ~utf8 THEN ClangArgsPanic("Android NDK toolchain path isn't valid UTF-8")
    ELSE ClangArgs(<< <<"--sysroot">>,
                     <<Val(e, "ANDROID_NDK_HOME"), "/toolchains/llvm/prebuilt/",
                       pick.name, "/sysroot">> >>, <<>>)

\* build.rs 438-445
WasiClangArgs ==
    ClangArgs(<< <<"--sysroot">>, <<"/opt/wasi-sdk/share/wasi-sysroot">>,
                 <<"-target">>, <<"wasm32-wasi">>, <<"-fvisibility=default">> >>, <<>>)

\* build.rs 413-419: the NDK directory is listed when ANDROID_NDK_HOME is set
NdkSearched(e) ==
    /\ IsSet(e, "CARGO_CFG_TARGET_OS")
    /\ Val(e, "CARGO_CFG_TARGET_OS") = "android"
    /\ IsSet(e, "ANDROID_NDK_HOME")
\* What pick_best_android_ndk_toolchain can return, over all the listings.
PickResults == {pick_best_android_ndk_toolchain(l) : l \in Listings}

\* xc: what xcrun does; pick: what pick_best_android_ndk_toolchain returns;
\* utf8: whether the sysroot path under the picked toolchain is UTF-8.
get_extra_clang_args_for_bindgen(e, xc, pick, utf8) ==
    IF ~IsSet(e, "CARGO_CFG_TARGET_OS")
        THEN ClangArgsPanic("unwrap of a variable that is not set")
    ELSE LET os == Val(e, "CARGO_CFG_TARGET_OS") IN
         IF os \in {"ios", "macos"} THEN AppleClangArgs(e, xc)
         ELSE IF os = "android" THEN AndroidClangArgs(e, pick, utf8)
         ELSE IF os = "wasi" THEN WasiClangArgs
         ELSE ClangArgs(<<>>, <<>>)

(***************************************************************************)
(* main (build.rs 452-614)                                                 *)
(***************************************************************************)

\* How many times in a row the build script is run.
MaxRuns == 2

\* println!("cargo:..."), one line each
FetchWarning == <<"cargo:warning", "fetching boringssl git submodule">>
LinkSearch(dir, lib, subdir) ==
    <<"cargo:rustc-link-search", "native", dir, "/build/", lib, "/", subdir>>
LinkLib(lib) == <<"cargo:rustc-link-lib", "static", lib>>
CdylibLinkArg == <<"cargo:rustc-cdylib-link-arg", "-Wl,-undefined,dynamic_lookup">>

\* build.rs 457: !Path::new(BORING_SSL_PATH).join("CMakeLists.txt").exists()
NeedsFetchAlways(treePresent) == TRUE
NeedsFetch(treePresent) == ~treePresent

\* What `git submodule update` can give (build.rs 460-468).
GitOutcomes == {"spawn failed", "exit nonzero", "ok"}
\* build.rs 469: !status.map_or(false, |status| status.success())
FetchFailedIgnored(git) == FALSE
FetchFailed(git) == git # "ok"

\* build.rs 476-479
FuzzingFlags(e) ==
    IF Has(e, "fuzzing")
        THEN <<"-DBORINGSSL_UNSAFE_DETERMINISTIC_MODE", "-DBORINGSSL_UNSAFE_FUZZER_MODE">>
        ELSE <<>>

\* build.rs 480-486
FipsDefines(e, pair) ==
    IF Has(e, "fips")
        THEN <<Def("fips", "CMAKE_C_COMPILER", <<pair[1]>>),
               Def("fips", "CMAKE_CXX_COMPILER", <<pair[2]>>),
               Def("fips", "CMAKE_ASM_COMPILER", <<pair[1]>>),
               Def("fips", "FIPS", <<"1">>)>>
        ELSE <<>>

\* The verdict of the verifier as main sees it: a pair, or a panic.
Brief(v) == [outcome |-> v.outcome, pair |-> v.pair]
FipsVerdicts == {Brief(verify_fips_clang_version(p)) : p \in ProbeEnvs}

\* build.rs 488-491: the targets built, in order
BuildTargets(e) == (IF Has(e, "ssl") THEN <<"ssl">> ELSE <<>>) \o <<"crypto">>

\* build.rs 496-503
LinkSearches(dir, subdir) ==
    <<LinkSearch(dir, "crypto", subdir), LinkSearch(dir, "ssl", subdir)>>
\* build.rs 511-514, without the test of the feature
LinkLibsBoth(e) == <<LinkLib("crypto"), LinkLib("ssl")>>
\* build.rs 511-514
LinkLibs(e) == <<LinkLib("crypto")>> \o (IF Has(e, "ssl") THEN <<LinkLib("ssl")>> ELSE <<>>)
\* build.rs 517-520
MacosLinkArg(e) ==
    IF Val(e, "CARGO_CFG_TARGET_OS") = "macos" THEN <<CdylibLinkArg>> ELSE <<>>

\* build.rs 523-529
IncludePath(e) ==
    IF IsSet(e, "BORING_BSSL_INCLUDE_PATH")
        THEN <<Val(e, "BORING_BSSL_INCLUDE_PATH")>>
        ELSE <<BORING_SSL_PATH(e), "/include">>

\* build.rs 560: the triples whose layout tests are switched off
NoLayoutTests ==
    {<<"aarch64", "apple", "ios">>, <<"aarch64", "apple", "ios", "sim">>,
     <<"aarch64", "apple", "ios", "macabi">>}

\* build.rs 566-598
Headers(e) ==
    <<"aes.h", "asn1_mac.h", "asn1t.h">>
        \o (IF Has(e, "fips") THEN <<>> ELSE <<"blake2.h">>)
        \o <<"blowfish.h", "cast.h", "chacha.h", "cmac.h", "cpu.h", "curve25519.h",
             "des.h", "dtls1.h", "hkdf.h", "hrss.h", "md4.h", "md5.h", "obj_mac.h",
             "objects.h", "opensslv.h", "ossl_typ.h", "pkcs12.h", "poly1305.h",
             "rand.h", "rc4.h", "ripemd.h", "siphash.h", "srtp.h">>
        \o (IF Has(e, "fips") THEN <<>> ELSE <<"trust_token.h">>)
        \o <<"x509v3.h">>

NoBuilder == [clang_args |-> <<>>, layout_tests |-> TRUE, headers |-> <<>>]
NoExt == [fetch |-> "none", build |-> "none", xcrun |-> "none",
          generate |-> "none", write |-> "none"]

\* The lines of stdout that tell cargo how to link.
IsLinkDirective(d) ==
    d[1] \in {"cargo:rustc-link-search", "cargo:rustc-link-lib",
              "cargo:rustc-cdylib-link-arg"}
LinkDirectives(lines) == SelectSeq(lines, IsLinkDirective)

\* The environments main is run in: a platform as cargo describes it, a
\* host, the features, the variables that may be missing.
Platforms ==
    {[os |-> "linux", arch |-> "x86_64", target |-> LinuxGnu],
     [os |-> "linux", arch |-> "aarch64", target |-> <<"aarch64", "unknown", "linux", "gnu">>],
     [os |-> "android", arch |-> "aarch64", target |-> <<"aarch64", "linux", "android">>],
     [os |-> "macos", arch |-> "aarch64", target |-> <<"aarch64", "apple", "darwin">>],
     [os |-> "ios", arch |-> "aarch64", target |-> <<"aarch64", "apple", "ios">>],
     [os |-> "ios", arch |-> "arm", target |-> <<"armv7", "apple", "ios">>],
     [os |-> "windows", arch |-> "x86_64", target |-> WindowsMsvc],
     [os |-> "wasi", arch |-> "wasm32", target |-> <<"wasm32", "wasi">>]}
MainHosts == {LinuxGnu, <<"aarch64", "apple", "darwin">>}
\* cfg!(target_env = "msvc") with DEBUG and OPT_LEVEL
Profiles ==
    {[msvc |-> FALSE, debug |-> Some("false"), opt |-> Some("3")],
     [msvc |-> TRUE, debug |-> Some("true"), opt |-> Some("2")],
     [msvc |-> TRUE, debug |-> Some("false"), opt |-> Some("fast")]}
Unsettable == {"CARGO_CFG_TARGET_OS", "OUT_DIR", "TARGET"}
MainFeatures == SUBSET {"ssl", "fips", "fuzzing"}

MainEnvs ==
    {[feat |-> f, msvc |-> pr.msvc,
      var |-> [n \in VarNames |->
                IF n \in unset THEN None
                ELSE CASE n = "CARGO_CFG_TARGET_ARCH" -> Some(pl.arch)
                       [] n = "CARGO_CFG_TARGET_OS" -> Some(pl.os)
                       [] n = "HOST" -> Some(host)
                       [] n = "TARGET" -> Some(pl.target)
                       [] n = "ANDROID_NDK_HOME" -> ndk
                       [] n = "DEBUG" -> pr.debug
                       [] n = "OPT_LEVEL" -> pr.opt
                       [] n = "BORING_BSSL_PATH" -> override
                       [] n = "BORING_BSSL_INCLUDE_PATH" -> None
                       [] n = "OUT_DIR" -> Some("$OUT_DIR")]] :
        f \in MainFeatures, pr \in Profiles, pl \in Platforms, host \in MainHosts,
        ndk \in OptionOf({"$NDK"}), override \in OptionOf({"$BSSL"}),
        unset \in {{}} \cup {{n} : n \in Unsettable}}

NoPrev == [link |-> <<>>, pc |-> "none", at |-> ""]
NoBindings == [state |-> "absent", run |-> 0]

\* The state a run starts in.
RunStart ==
    /\ pc = "start" /\ fetches = 0 /\ stdout = <<>> /\ stderr = <<>>
    /\ bsslDir = "" /\ builder = NoBuilder /\ ext = NoExt /\ abortAt = ""
    /\ cfg = NoConfig /\ buildPath = NoPath
    /\ vres = Brief(NotRun) /\ lres = NotPicked

Init ==
    /\ env \in MainEnvs
    /\ tree \in BOOLEAN
    /\ run = 1
    /\ bindings = NoBindings
    /\ prev = NoPrev
    /\ probes = <<>> /\ listing = <<>> /\ looked = <<>>
    /\ RunStart

Panic(step) == pc' = "aborted" /\ abortAt' = step
Goto(step) == pc' = step /\ abortAt' = abortAt

\* build.rs 455-472: the override, or the fetch of the submodule when the
\* source tree is missing.
FetchSource ==
    /\ pc = "start"
    /\ LET first == <<RerunIfEnvChanged("BORING_BSSL_PATH")>> IN
       IF IsSet(env, "BORING_BSSL_PATH")
         THEN /\ bsslDir' = Val(env, "BORING_BSSL_PATH")
              /\ stdout' = stdout \o first
              /\ Goto("emit")
              /\ UNCHANGED <<tree, fetches, ext>>
       ELSE IF NeedsFetch(tree)
         THEN \E git \in GitOutcomes :
              /\ fetches' = fetches + 1
              /\ ext' = [ext EXCEPT !.fetch = git]
              /\ stdout' = stdout \o first \o <<FetchWarning>>
              /\ tree' = (tree \/ git = "ok")
              /\ IF FetchFailed(git) THEN Panic("fetch") ELSE Goto("configure")
              /\ UNCHANGED bsslDir
       ELSE /\ stdout' = stdout \o first
            /\ Goto("configure")
            /\ UNCHANGED <<tree, fetches, ext, bsslDir>>
    /\ UNCHANGED <<looked, probes, vres, listing, lres, env, buildPath, cfg, run, stderr,
                   builder, bindings, prev>>

\* build.rs 474-486: the cmake configuration, the fuzzing flags, the
\* verified compilers of a fips build.
Configure ==
    /\ pc = "configure"
    /\ LET base == get_boringssl_cmake_config(env)
           fuzzed == [base EXCEPT !.cxxflags = @ \o FuzzingFlags(env)]
       IN /\ stdout' = stdout \o base.out
          /\ stderr' = stderr \o base.err
          /\ IF base.abort # "none"
               THEN cfg' = base /\ Panic("cmake config") /\ UNCHANGED vres
               ELSE \E v \in (IF Has(env, "fips") THEN FipsVerdicts ELSE {Brief(NotRun)}) :
                    /\ vres' = v
                    /\ IF Has(env, "fips") /\ v.outcome # "returned"
                         THEN cfg' = fuzzed /\ Panic("verify")
                         ELSE /\ cfg' = [fuzzed EXCEPT !.defines = @ \o FipsDefines(env, v.pair)]
                              /\ Goto("build")
    /\ UNCHANGED <<looked, probes, listing, lres, env, buildPath, run, tree, fetches,
                   bsslDir, builder, ext, bindings, prev>>

\* build.rs 488-491: cmake builds ssl (if asked for) and crypto; a build
\* that fails panics, and so does one without OUT_DIR.
Build ==
    /\ pc = "build"
    /\ \E n \in 0..Len(BuildTargets(env)) :
        \* the first n targets get built; the next one, if any, fails
        /\ ~IsSet(env, "OUT_DIR") => n = 0
        /\ cfg' = [cfg EXCEPT !.built = SubSeq(BuildTargets(env), 1, n)]
        /\ IF n = Len(BuildTargets(env))
             THEN /\ ext' = [ext EXCEPT !.build = "ok"]
                  /\ bsslDir' = Val(env, "OUT_DIR")
                  /\ Goto("emit")
             ELSE /\ ext' = [ext EXCEPT !.build = "failed"]
                  /\ UNCHANGED bsslDir
                  /\ Panic("build")
    /\ UNCHANGED <<looked, probes, vres, listing, lres, env, buildPath, run, tree, fetches,
                   stdout, stderr, builder, bindings, prev>>

\* build.rs 494-522: the output subdirectory and the link directives.
EmitDirectives ==
    /\ pc = "emit"
    /\ LET p == get_boringssl_platform_output_path(env)
           links == LinkSearches(bsslDir, p.subdir) \o LinkLibs(env)
       IN /\ buildPath' = p
          /\ IF p.abort # "none"
               THEN Panic("output path") /\ UNCHANGED stdout
             ELSE IF ~IsSet(env, "CARGO_CFG_TARGET_OS")
               THEN Panic("target os") /\ stdout' = stdout \o links
             ELSE /\ stdout' = stdout \o links \o MacosLinkArg(env)
                                \o <<RerunIfEnvChanged("BORING_BSSL_INCLUDE_PATH")>>
                  /\ Goto("bindgen")
    /\ UNCHANGED <<looked, probes, vres, listing, lres, env, cfg, run, tree, fetches, stderr,
                   bsslDir, builder, ext, bindings, prev>>

\* build.rs 523-564: the bindgen builder with the platform's clang
\* arguments; xcrun and the NDK directory are consulted here.
ConfigureBindgen ==
    /\ pc = "bindgen"
    /\ \E xc \in (IF XcrunInvoked(env) THEN XcrunOutcomes ELSE {"none"}),
          pick \in (IF NdkSearched(env) THEN PickResults ELSE {NotPicked}),
          utf8 \in (IF NdkSearched(env) THEN BOOLEAN ELSE {TRUE}) :
        LET a == get_extra_clang_args_for_bindgen(env, xc, pick, utf8)
        IN /\ lres' = pick
           /\ ext' = [ext EXCEPT !.xcrun = xc]
           /\ stderr' = stderr \o a.err
           /\ IF a.abort # "none"
                THEN Panic("clang args") /\ UNCHANGED builder
              ELSE IF ~IsSet(env, "TARGET")
                THEN Panic("target") /\ UNCHANGED builder
              ELSE /\ builder' =
                        [clang_args |-> a.params \o << <<"-I">>, IncludePath(env)>>,
                         layout_tests |-> Val(env, "TARGET") \notin NoLayoutTests,
                         headers |-> Headers(env)]
                   /\ Goto("generate")
    /\ UNCHANGED <<looked, probes, vres, listing, env, buildPath, cfg, run, tree, fetches,
                   stdout, bsslDir, bindings, prev>>

\* build.rs 609: builder.generate().expect(..)
Generate ==
    /\ pc = "generate"
    /\ \E ok \in BOOLEAN :
        /\ ext' = [ext EXCEPT !.generate = IF ok THEN "ok" ELSE "failed"]
        /\ IF ok THEN Goto("write") ELSE Panic("generate")
    /\ UNCHANGED <<looked, probes, vres, listing, lres, env, buildPath, cfg, run, tree,
                   fetches, stdout, stderr, bsslDir, builder, bindings, prev>>

\* build.rs 610-613: bindings.write_to_file(OUT_DIR/bindings.rs); a write
\* that fails may have created or truncated the file already.
WriteBindings ==
    /\ pc = "write"
    /\ IF ~IsSet(env, "OUT_DIR")
         THEN Panic("out dir") /\ UNCHANGED <<ext, bindings>>
         ELSE \E w \in {"ok", "failed", "failed partway"} :
              /\ ext' = [ext EXCEPT !.write = w]
              /\ bindings' = IF w = "ok" THEN [state |-> "complete", run |-> run]
                             ELSE IF w = "failed partway"
                                THEN [state |-> "partial", run |-> run]
                             ELSE bindings
              /\ IF w = "ok" THEN Goto("done") ELSE Panic("write")
    /\ UNCHANGED <<looked, probes, vres, listing, lres, env, buildPath, cfg, run, tree,
                   fetches, stdout, stderr, bsslDir, builder, prev>>

\* The build script is run again, in the same environment, on the files
\* the last run left.
RunAgain ==
    /\ pc \in {"done", "aborted"}
    /\ run < MaxRuns
    /\ run' = run + 1
    /\ prev' = [link |-> LinkDirectives(stdout), pc |-> pc, at |-> abortAt]
    /\ pc' = "start" /\ fetches' = 0 /\ stdout' = <<>> /\ stderr' = <<>>
    /\ bsslDir' = "" /\ builder' = NoBuilder /\ ext' = NoExt /\ abortAt' = ""
    /\ cfg' = NoConfig /\ buildPath' = NoPath
    /\ vres' = Brief(NotRun) /\ lres' = NotPicked
    /\ UNCHANGED <<looked, probes, listing, env, tree, bindings>>

Next ==
    \/ FetchSource
    \/ Configure
    \/ Build
    \/ EmitDirectives
    \/ ConfigureBindgen
    \/ Generate
    \/ WriteBindings
    \/ RunAgain

Spec == Init /\ [][Next]_vars

(***************************************************************************)
(* Claims about the toolchain verifier, stated over the environment        *)
(* `probes` and the verdict `vres`.                                        *)
(***************************************************************************)

VerifierDone == vres.outcome # "pending"

\* The tool ran and printed a first line / that line contains 7.0.1.
HasLine(o) == o.spawn /\ o.success /\ o.utf8 /\ o.lines # <<>>
LineHasToken(o) == HasLine(o) /\ Contains(o.lines[1], <<"7", ".", "0", ".", "1">>)
\* The tool is absent, or ran and printed a first line.
WellBehaved(o) == ~o.spawn \/ HasLine(o)
CcOf(i) == Candidates[i][1]
CxxOf(i) == Candidates[i][2]
\* Candidate i is the first whose C compiler's version line contains 7.0.1.
IsFirstMatch(i) ==
    /\ LineHasToken(probes[CcOf(i)])
    /\ \A j \in 1..(i - 1) : ~LineHasToken(probes[CcOf(j)])
VersionAborts == {"status", "utf8", "empty output"}
WasProbed(tool) == \E k \in 1..Len(vres.probed) : vres.probed[k] = tool
LastProbed == vres.probed[Len(vres.probed)]
Warned(w) == \E k \in 1..Len(vres.warnings) : vres.warnings[k] = w

\* What the first matching candidate decides: its pair, or a mismatch.
DecidedBy(i) ==
    IF LineHasToken(probes[CxxOf(i)])
        THEN vres.outcome = "returned" /\ vres.pair = Candidates[i]
        ELSE vres.outcome = "mismatch" /\ vres.pair = <<>>

\* Any pair returned has both version lines containing 7.0.1.
ReturnedPairCompliant ==
    vres.outcome = "returned" =>
        \E i \in 1..3 :
            /\ vres.pair = Candidates[i]
            /\ LineHasToken(probes[CcOf(i)])
            /\ LineHasToken(probes[CxxOf(i)])

\* C1 as stated: the first candidate whose C compiler's version line contains
\* 7.0.1 decides the outcome (its pair is returned when the C++ line contains
\* 7.0.1 too, a mismatch error otherwise), whatever the other binaries do;
\* and any returned pair is compliant.
C1_FirstMatchDecides ==
    VerifierDone =>
        /\ \A i \in 1..3 : IsFirstMatch(i) => DecidedBy(i)
        /\ ReturnedPairCompliant

\* C1 amended: the first matching candidate decides the outcome provided
\* every binary probed on the way (the earlier C compilers and its own C++
\* compiler) is absent or exits successfully with a first line; a probed
\* binary that runs but fails, or prints no valid first line, aborts the run
\* at that probe with no pair returned.  Any returned pair is compliant and
\* is the first matching candidate.
C1_FirstMatchDecidesWhenProbesBehave ==
    VerifierDone =>
        /\ \A i \in 1..3 :
            IsFirstMatch(i) =>
                IF \E j \in 1..(i - 1) : ~WellBehaved(probes[CcOf(j)])
                    THEN vres.outcome \in VersionAborts /\ vres.pair = <<>>
                ELSE IF ~WellBehaved(probes[CxxOf(i)])
                    THEN /\ vres.outcome \in VersionAborts
                         /\ vres.pair = <<>>
                         /\ LastProbed = CxxOf(i)
                ELSE DecidedBy(i)
        /\ ReturnedPairCompliant
        /\ vres.outcome = "returned" =>
              \E i \in 1..3 : IsFirstMatch(i) /\ vres.pair = Candidates[i]

\* C1 witness: clang-7 is present with another version and is passed over;
\* (clang, clang++) both report 7.0.1 and are returned.
C1_Witness ==
    /\ probes["clang-7"] = Reports(Line710)
    /\ probes["clang"] = Reports(Line701)
    /\ probes["clang++"] = Reports(Line1701)
    /\ vres.outcome = "returned"
    /\ vres.pair = <<"clang", "clang++">>

\* The run ended in a fatal error at the probe of `tool`.
FatalAt(tool) ==
    /\ vres.outcome \notin {"pending", "returned"}
    /\ LastProbed = tool

\* C2 as stated: whichever candidate binary is absent, the run never ends
\* in a hard failure at it; a missing binary followed by a valid pair yields
\* that pair.
C2_AbsentNeverFatal ==
    VerifierDone =>
        /\ \A t \in Tools : (WasProbed(t) /\ ~probes[t].spawn) => ~FatalAt(t)
        /\ ( /\ ~probes["clang-7"].spawn
             /\ LineHasToken(probes["clang"])
             /\ LineHasToken(probes["clang++"]) )
           => (vres.outcome = "returned" /\ vres.pair = <<"clang", "clang++">>)

\* C2 amended: an absent C compiler other than the last candidate (clang-7,
\* clang) reads as an empty version, is skipped with a warning and the next
\* candidate is probed; an absent cc (the last candidate) ends in the fatal
\* unsupported-toolchain error with an empty found version; an absent C++
\* partner of a matching C compiler ends in the fatal mismatch error.
C2_AbsentSkippedUnlessLastOrCxx ==
    VerifierDone =>
        /\ \A i \in 1..2 :
            (WasProbed(CcOf(i)) /\ ~probes[CcOf(i)].spawn) =>
                /\ WasProbed(CcOf(i + 1))
                /\ Warned(<<"missing", CcOf(i)>>)
                /\ ~FatalAt(CcOf(i))
        /\ (WasProbed("cc") /\ ~probes["cc"].spawn) =>
                /\ vres.outcome = "unsupported"
                /\ vres.found = <<>>
                /\ FatalAt("cc")
        /\ \A i \in 1..3 :
            (WasProbed(CxxOf(i)) /\ ~probes[CxxOf(i)].spawn) =>
                (vres.outcome = "mismatch" /\ FatalAt(CxxOf(i)))
        /\ ( /\ ~probes["clang-7"].spawn
             /\ LineHasToken(probes["clang"])
             /\ LineHasToken(probes["clang++"]) )
           => (vres.outcome = "returned" /\ vres.pair = <<"clang", "clang++">>)

\* C2 witness: clang-7 is absent, was skipped with its warning, and the
\* valid pair (clang, clang++) was returned.
C2_Witness ==
    /\ ~probes["clang-7"].spawn
    /\ Warned(<<"missing", "clang-7">>)
    /\ vres.outcome = "returned"
    /\ vres.pair = <<"clang", "clang++">>

NoCcHasToken == \A i \in 1..3 : ~LineHasToken(probes[CcOf(i)])
\* The version the panic at cc names: cc's first line, empty when absent.
CcLine == IF HasLine(probes["cc"]) THEN probes["cc"].lines[1] ELSE <<>>

\* C3 as stated: when no C compiler's version line contains 7.0.1 the run
\* always ends in the unsupported-toolchain error raised at cc, naming the
\* version found; the code after the loop is never reached.
C3_NoMatchIsUnsupported ==
    VerifierDone =>
        /\ NoCcHasToken =>
            /\ vres.outcome = "unsupported"
            /\ LastProbed = "cc"
            /\ vres.found = CcLine
        /\ vres.outcome # "unreachable"

\* C3 amended: the same, provided every C compiler candidate is absent or
\* exits successfully with a first line; otherwise the run aborts at the
\* first C compiler that runs badly.  Earlier candidates reporting a
\* non-empty non-matching line are skipped with a warning.  The code after
\* the loop is never reached.
C3_NoMatchIsUnsupportedWhenProbesBehave ==
    VerifierDone =>
        /\ NoCcHasToken =>
            IF \A i \in 1..3 : WellBehaved(probes[CcOf(i)])
                THEN /\ vres.outcome = "unsupported"
                     /\ LastProbed = "cc"
                     /\ vres.found = CcLine
                     /\ \A i \in 1..2 :
                          (HasLine(probes[CcOf(i)]) /\ probes[CcOf(i)].lines[1] # <<>>)
                            => Warned(<<"skipping incompatible version",
                                        probes[CcOf(i)].lines[1]>>)
                ELSE /\ vres.outcome \in VersionAborts
                     /\ ~WellBehaved(probes[LastProbed])
                     /\ \A k \in 1..(Len(vres.probed) - 1) :
                            WellBehaved(probes[vres.probed[k]])
        /\ vres.outcome # "unreachable"

\* C3 witness: all three C compilers are present with other versions; the
\* run ended in the unsupported-toolchain error at cc after two warnings.
C3_Witness ==
    /\ \A i \in 1..3 : probes[CcOf(i)] = Reports(Line710)
    /\ vres.outcome = "unsupported"
    /\ vres.found = Line710
    /\ Len(vres.warnings) = 2

(***************************************************************************)
(* Claims about the NDK toolchain locator.                                 *)
(***************************************************************************)

LocatorDone == lres.err # "pending"
\* The directory was listed without error: it has a set of children.
Listed ==
    /\ listing.readable
    /\ \A i \in 1..Len(listing.entries) : listing.entries[i].kind # "ioerr"
ChildNames == {listing.entries[i].name : i \in 1..Len(listing.entries)}
IsFirstDirectory(i) ==
    /\ listing.entries[i].kind = "dir"
    /\ \A j \in 1..(i - 1) : listing.entries[j].kind # "dir"

\* C7: with a known name among the children the result is the first of
\* linux-x86_64, darwin-x86_64, windows-x86_64 that is present, whatever the
\* listing order; otherwise it is the first listed child that is a
\* directory; with no such child (an empty directory included) the result is
\* the not-found error.
C7_LocatorPreference ==
    (LocatorDone /\ Listed) =>
        IF "linux-x86_64" \in ChildNames THEN lres = Picked("linux-x86_64")
        ELSE IF "darwin-x86_64" \in ChildNames THEN lres = Picked("darwin-x86_64")
        ELSE IF "windows-x86_64" \in ChildNames THEN lres = Picked("windows-x86_64")
        ELSE IF \E i \in 1..Len(listing.entries) : listing.entries[i].kind = "dir"
            THEN \E i \in 1..Len(listing.entries) :
                    IsFirstDirectory(i) /\ lres = Picked(listing.entries[i].name)
        ELSE lres = PickFailed("NotFound")

\* C7 witness: darwin-x86_64 is listed before linux-x86_64, after a plain
\* file, and linux-x86_64 is the result.
C7_Witness ==
    /\ Len(listing.entries) = 3
    /\ listing.entries[1] = [name |-> "README", kind |-> "file"]
    /\ listing.entries[2].name = "darwin-x86_64"
    /\ listing.entries[3].name = "linux-x86_64"
    /\ lres = Picked("linux-x86_64")

(***************************************************************************)
(* Claims about the output subdirectory.                                   *)
(***************************************************************************)

PathDone == buildPath.abort # "pending"
DebugIs(v) == env.var["DEBUG"] = <<v>>
OptIs(v) == env.var["OPT_LEVEL"] = <<v>>

\* C9: for the MSVC family and DEBUG true or false, OPT_LEVEL 0 gives Debug;
\* 1, 2, 3 give RelWithDebInfo when DEBUG is true and Release when false; s, z
\* give MinSizeRel; any other OPT_LEVEL is fatal.  For every other family the
\* subdirectory is empty whatever DEBUG and OPT_LEVEL are, set or not.
C9_OutputSubdir ==
    PathDone =>
        /\ (env.msvc /\ (DebugIs("true") \/ DebugIs("false"))) =>
            IF OptIs("0") THEN buildPath = [abort |-> "none", subdir |-> "Debug"]
            ELSE IF OptIs("1") \/ OptIs("2") \/ OptIs("3")
                THEN buildPath =
                        [abort |-> "none",
                         subdir |-> IF DebugIs("true") THEN "RelWithDebInfo" ELSE "Release"]
            ELSE IF OptIs("s") \/ OptIs("z")
                THEN buildPath = [abort |-> "none", subdir |-> "MinSizeRel"]
            ELSE buildPath.abort \notin {"none", "pending"}
        /\ ~env.msvc => buildPath = [abort |-> "none", subdir |-> ""]

\* C9 witness: MSVC, DEBUG=true, OPT_LEVEL=2 gave RelWithDebInfo.
C9_Witness ==
    /\ env.msvc /\ DebugIs("true") /\ OptIs("2")
    /\ buildPath = [abort |-> "none", subdir |-> "RelWithDebInfo"]

(***************************************************************************)
(* Claims about the cmake configuration.                                   *)
(***************************************************************************)

ConfigDone == cfg.abort # "pending"
TripleVarsSet ==
    \A n \in {"CARGO_CFG_TARGET_ARCH", "CARGO_CFG_TARGET_OS", "HOST", "TARGET"} :
        env.var[n] # <<>>
PlatformArms == {"android", "macos", "ios", "windows", "linux", "wasi"}
TargetOs == env.var["CARGO_CFG_TARGET_OS"][1]
\* Every definition and compiler flag of the configuration was made by `arm`.
AllMadeBy(arm) ==
    /\ \A i \in 1..Len(cfg.defines) : cfg.defines[i].by = arm
    /\ \A i \in 1..Len(cfg.cflags) : cfg.cflags[i].by = arm

\* C10: with HOST equal to TARGET the configuration gets no definition and
\* no compiler flag, whatever the OS and architecture; with HOST different
\* from TARGET the arm of the target OS alone (android, macos, ios, windows,
\* linux, wasi; none for another OS) is taken and makes every definition.
C10_PlatformParamsOnlyWhenCross ==
    (ConfigDone /\ TripleVarsSet) =>
        IF env.var["HOST"] = env.var["TARGET"]
            THEN /\ cfg.branch = "none"
                 /\ cfg.defines = <<>> /\ cfg.cflags = <<>> /\ cfg.cxxflags = <<>>
            ELSE /\ cfg.branch = (IF TargetOs \in PlatformArms THEN TargetOs ELSE "none")
                 /\ AllMadeBy(cfg.branch)
                 /\ cfg.branch = "none" => (cfg.defines = <<>> /\ cfg.cflags = <<>>)

\* C10 witness: a native build for windows (HOST = TARGET) left the
\* configuration without definitions.
C10_Witness ==
    /\ ConfigDone /\ TripleVarsSet
    /\ env.var["HOST"] = env.var["TARGET"]
    /\ TargetOs = "windows"
    /\ cfg.abort = "none" /\ cfg.defines = <<>>


(***************************************************************************)
(* Claims about main: the fetch of the source                              *)
(***************************************************************************)

Overridden == IsSet(env, "BORING_BSSL_PATH")
Emitted(lines) == LinkDirectives(lines) # <<>>

\* One step of a run, as far as fetching goes: the step that leaves the
\* start of a run without an override fetches once if the tree is absent
\* and not at all if it is present; no later step of the run fetches.
FetchStep ==
    /\ (pc = "start" /\ pc' # "start" /\ ~Overridden)
          => (fetches = 0 /\ fetches' = (IF tree THEN 0 ELSE 1))
    /\ (pc # "start" /\ run' = run) => fetches' = fetches
    /\ (pc = "start" /\ pc' # "start" /\ Overridden) => fetches' = 0

\* A later run whose predecessor left the tree fetched.
AfterFetchedRun == run > 1 /\ ~Overridden /\ prev.at # "fetch"

\* C4: in a run without an override the source is fetched exactly once if
\* the source tree is absent and not at all if it is present; so a run that
\* follows one that left the tree fetched finds the tree, fetches nothing,
\* and, when both runs get as far as the link directives, emits the same
\* sequence of link directives as the run before it.
C4_FetchOnceIffAbsent ==
    /\ [][FetchStep]_vars
    /\ [](AfterFetchedRun => (tree /\ fetches = 0))
    /\ []((run > 1 /\ Emitted(prev.link) /\ Emitted(stdout))
            => LinkDirectives(stdout) = prev.link)

\* A second run without an override, after a first run that had to fetch
\* the absent tree and went through, has finished without fetching and has
\* emitted the link directives the first run emitted.
C4_Witness ==
    /\ run = 2 /\ ~Overridden /\ pc = "done" /\ prev.pc = "done"
    /\ tree /\ fetches = 0
    /\ Len(prev.link) >= 3 /\ LinkDirectives(stdout) = prev.link
    /\ Has(env, "ssl")

(***************************************************************************)
(* Claims about main: what an aborted run leaves                           *)
(***************************************************************************)

WrittenByThisRun == bindings.run = run /\ bindings.state # "absent"
\* Every step before the write has succeeded.
AllStepsSucceeded ==
    /\ ext.fetch \in {"none", "ok"}
    /\ ext.build = (IF Overridden THEN "none" ELSE "ok")
    /\ cfg.abort = (IF Overridden THEN "pending" ELSE "none")
    /\ Has(env, "fips") /\ ~Overridden => vres.outcome = "returned"
    /\ buildPath.abort = "none"
    /\ ext.xcrun \notin {"spawn failed", "ok not utf8"}
    /\ ext.generate = "ok"
    /\ \A n \in Unsettable : IsSet(env, n)

\* C5: a run that aborts at any step before the write of the declaration
\* file (a variable that is not set, the fetch, the verification of the
\* toolchain, the native build, an unknown debug or optimisation value, the
\* generation) leaves no declaration file written by that run; the file is
\* written only by the last step, after every other step has succeeded.
C5_NoFileUnlessAllSucceeded ==
    /\ (pc = "aborted" /\ abortAt # "write") => ~WrittenByThisRun
    /\ pc \notin {"done", "aborted"} => ~WrittenByThisRun
    /\ WrittenByThisRun => (AllStepsSucceeded /\ ext.write # "none")

\* A second run aborts at the native build and the only declaration file
\* there is is the one the first run wrote; the first run had fetched.
C5_Witness ==
    /\ run = 2 /\ pc = "aborted" /\ abortAt = "build"
    /\ bindings = [state |-> "complete", run |-> 1]

(***************************************************************************)
(* Claims about get_extra_clang_args_for_bindgen in main                   *)
(***************************************************************************)

\* The NDK directory was searched and no toolchain was found in it.
DiscoveryFailed == lres # NotPicked /\ ~lres.ok
BeyondClangArgs == pc \in {"generate", "write", "done"}
DiscoveryWarning ==
    <<"warning: failed to find prebuilt Android NDK toolchain for bindgen", lres.err>>
InStderr(line) == \E i \in 1..Len(stderr) : stderr[i] = line
NoSysroot == builder.clang_args = << <<"-I">>, IncludePath(env)>>

\* C6, as the specification has it: on an Android target a failure of the
\* discovery of the NDK toolchain aborts the run, which does not go on to
\* the generation of the interface.
C6_DiscoveryFailureIsFatal ==
    DiscoveryFailed => ~BeyondClangArgs

\* C6, as the code has it: on an Android target a failure of the discovery
\* of the NDK toolchain is not fatal: a warning is written to stderr, no
\* sysroot argument is given to the generator, and the run does not abort
\* at this step.
C6_DiscoveryFailureIsSoft ==
    DiscoveryFailed =>
        /\ Val(env, "CARGO_CFG_TARGET_OS") = "android"
        /\ abortAt # "clang args"
        /\ InStderr(DiscoveryWarning)
        /\ IsSet(env, "TARGET") => (pc # "bindgen" /\ (BeyondClangArgs => NoSysroot))

\* The NDK directory could not be listed, and the run has gone through.
C6_Witness ==
    /\ DiscoveryFailed /\ lres.err = "io"
    /\ pc = "done" /\ WrittenByThisRun /\ NoSysroot

\* xcrun was run and did not give a path.
LookupFailed == ext.xcrun \in {"spawn failed", "exit code", "killed"}
LookupLogged ==
    \E i \in 1..Len(stderr) : stderr[i][1] = "xcrun failed"

\* C8: on an Apple target a failure of the lookup of the SDK path never
\* aborts the run: the failure is logged, no sysroot argument is given to
\* the generator, and the run goes on to the generation of the interface.
C8_LookupFailureNeverAborts ==
    LookupFailed =>
        /\ abortAt # "clang args"
        /\ LookupLogged
        /\ BeyondClangArgs => NoSysroot


(***************************************************************************)
(* Claims about main: the link directives and the targets built            *)
(***************************************************************************)

InStdout(line) == \E i \in 1..Len(stdout) : stdout[i] = line
CountInStdout(line) == Cardinality({i \in 1..Len(stdout) : stdout[i] = line})
IsBuilt(lib) == \E i \in 1..Len(cfg.built) : cfg.built[i] = lib

LookedUp == looked # NoLookup
SelectedAndroidTable ==
    IF "ndk-old-gcc" \in env.feat THEN CMAKE_PARAMS_ANDROID_NDK_OLD_GCC
                                  ELSE CMAKE_PARAMS_ANDROID_NDK
RowsFor(table, key) == {i \in 1..Len(table) : table[i][1] = key}
\* The lookup of the key `var` in `table` gave `result`: the parameters of
\* the key's row as the table has them, nothing if the key has no row, and
\* no error either way.
LookupIsExact(result, table, var) ==
    env.var[var] # None =>
        /\ result.abort = "none"
        /\ \A i \in RowsFor(table, env.var[var][1]) : result.params = table[i][2]
        /\ RowsFor(table, env.var[var][1]) = {} => result.params = <<>>

\* Rows of the tables as build.rs 10-105 writes them.
RowsAsWritten ==
    /\ (env.var["CARGO_CFG_TARGET_ARCH"] = Some("arm") /\ "ndk-old-gcc" \notin env.feat)
          => looked.android.params = << <<"ANDROID_ABI", <<"armeabi-v7a">> >> >>
    /\ (env.var["CARGO_CFG_TARGET_ARCH"] = Some("x86") /\ "ndk-old-gcc" \in env.feat)
          => looked.android.params =
                << <<"ANDROID_TOOLCHAIN_NAME", <<"x86-linux-android-4.9">> >> >>
    /\ env.var["TARGET"] = Some(<<"x86_64", "apple", "ios">>)
          => looked.apple.params = << <<"CMAKE_OSX_ARCHITECTURES", <<"x86_64">> >>,
                                      <<"CMAKE_OSX_SYSROOT", <<"iphonesimulator">> >> >>
    /\ env.var["TARGET"] = Some(<<"aarch64", "apple", "ios", "sim">>)
          => looked.apple.params = << <<"CMAKE_OSX_ARCHITECTURES", <<"arm64">> >>,
                                      <<"CMAKE_OSX_SYSROOT", <<"iphonesimulator">> >> >>

\* The definitions of a configuration that carry a name of the tables, as
\* name and value, in the order they were made.
TableNames ==
    {"ANDROID_ABI", "ANDROID_TOOLCHAIN_NAME", "CMAKE_OSX_ARCHITECTURES", "CMAKE_OSX_SYSROOT"}
RECURSIVE TableDefines(_)
TableDefines(ds) ==
    IF ds = <<>> THEN <<>>
    ELSE (IF ds[1].name \in TableNames THEN << <<ds[1].name, ds[1].value>> >> ELSE <<>>)
            \o TableDefines(Tail(ds))
\* What the configuration composed for the target OS takes from the tables.
Injected ==
    IF env.var["HOST"] = env.var["TARGET"] THEN <<>>
    ELSE IF TargetOs = "android" THEN looked.android.params
    ELSE looked.apple.params

\* C12: the lookups are total. For an architecture with a row in the
\* selected Android table and for a triple with a row in the Apple table
\* the lookup returns that row's parameters in the table's order; for one
\* without a row it returns the empty sequence and no error; the
\* configuration composed then defines exactly what the lookup returned
\* from the tables, nothing when that is empty, and is composed.
C12_LookupsAreTotal ==
    LookedUp =>
        /\ LookupIsExact(looked.android, SelectedAndroidTable, "CARGO_CFG_TARGET_ARCH")
        /\ LookupIsExact(looked.apple, CMAKE_PARAMS_APPLE, "TARGET")
        /\ RowsAsWritten
        /\ (ConfigDone /\ TripleVarsSet) =>
              /\ cfg.abort = "none"
              /\ TableDefines(cfg.defines) = Injected

\* For android on riscv64, which the table does not have, the lookup has
\* returned nothing and the configuration is composed with no definition
\* from the tables, while the Apple lookup of a triple the table has has
\* returned its two parameters.
C12_Witness ==
    /\ LookedUp /\ ConfigDone
    /\ TargetOs = "android" /\ env.var["CARGO_CFG_TARGET_ARCH"] = Some("riscv64")
    /\ looked.android = Returned(<<>>)
    /\ cfg.abort = "none" /\ Len(cfg.defines) = 3 /\ TableDefines(cfg.defines) = <<>>
    /\ env.var["TARGET"] = Some(<<"x86_64", "apple", "ios", "macabi">>)
    /\ Len(looked.apple.params) = 2

====
